---- MODULE Spec2Model ----
(***************************************************************************)
(* Substitution rules of unified-latex-to-pretext: the environment rules   *)
(* of environment-subs.ts (enumerateFactory, envFactory, removeEnv, the    *)
(* registry environmentReplacements and its alias-table expansion) and the *)
(* systeme / sysdelim macro rules.  A rule is applied to one node at a     *)
(* time; the state records the node as passed, the node and the file after *)
(* the rule ran (JavaScript arrays are shared by reference, so a rule can  *)
(* change its input), and what the rule returned or that it threw.         *)
(***************************************************************************)
EXTENDS Integers, Sequences, FiniteSets, TLC

VARIABLES rule, sel, node0, node, file0, file, out, prev, applied

vars == <<rule, sel, node0, node, file0, file, out, prev, applied>>

\* ---- bounds of the explored inputs ----
MaxLen == 2      \* longest environment body
MaxItems == 2    \* longest list body
MaxPrior == 1    \* most diagnostics already on the file when a rule runs
MaxApply == 2    \* most applications of one rule to the same node

\* ---- values ----
\* An argument-content slot as getArgsContent reports it: null or a node list.
Null == [null |-> TRUE, content |-> <<>>]
Some(c) == [null |-> FALSE, content |-> c]

Str(t) == [type |-> "string", text |-> t]
ParBreak == [type |-> "parbreak"]
Arg(open, c) == [openMark |-> open, content |-> c]
Macro(name, hasArgs, args) ==
    [type |-> "macro", name |-> name, hasArgs |-> hasArgs, args |-> args]
Environment(name, hasArgs, args, content, attrs) ==
    [type |-> "environment", env |-> name, hasArgs |-> hasArgs, args |-> args,
     content |-> content, renderInfo |-> attrs]

\* _renderInfo.additionalAttributes: absent, or a set of attributes.
NoRenderInfo == [hasAdditionalAttributes |-> FALSE, additionalAttributes |-> {}]
RenderInfo(attrs) == [hasAdditionalAttributes |-> TRUE, additionalAttributes |-> attrs]

\* What a rule application produced.
NoOut == [status |-> "none", val |-> <<>>]
Node(n) == [status |-> "node", val |-> n]
List(ns) == [status |-> "list", val |-> ns]
Threw(e) == [status |-> "threw", val |-> <<e>>]

\* ---- collaborators of the rules ----
htmlLike(tag, content, attributes) ==
    [type |-> "html", tag |-> tag, content |-> content, attributes |-> attributes]

matchMacro(n, name) == n.type = "macro" /\ n.name = name

getArgsContent(n) ==
    IF ~n.hasArgs THEN <<>>
    ELSE [i \in 1..Len(n.args) |->
            IF n.args[i].openMark = "" /\ n.args[i].content = <<>>
            THEN Null ELSE Some(n.args[i].content)]

NoName == "<null>"

getNamedArgsContent(n, names) ==
    IF ~n.hasArgs \/ Len(names) = 0 THEN [k \in {} |-> Null]
    ELSE LET idx == {i \in 1..Len(n.args) : i <= Len(names) /\ names[i] # NoName}
             last(k) == CHOOSE i \in idx : names[i] = k /\ \A j \in idx : names[j] = k => j <= i
         IN [k \in {names[i] : i \in idx} |-> getArgsContent(n)[last(k)]]

RECURSIVE wrapParsFrom(_, _)
wrapParsFrom(nodes, cur) ==
    LET flush == IF cur = <<>> THEN <<>> ELSE <<htmlLike("p", cur, {})>>
    IN IF nodes = <<>> THEN flush
       ELSE IF Head(nodes).type = "parbreak"
            THEN flush \o wrapParsFrom(Tail(nodes), <<>>)
            ELSE wrapParsFrom(Tail(nodes), Append(cur, Head(nodes)))

wrapPars(nodes) == wrapParsFrom(nodes, <<>>)

makeWarningMessage(n, message, warningType) ==
    [reason |-> message, source |-> warningType]

\* file.message(...): one more message on the file.
fileMessage(f, m) == [f EXCEPT !.messages = Append(@, m)]

\* ---- getItemArgs ----
ITEM_ARG_NAMES_REG == <<"label">>
ITEM_ARG_NAMES_BEAMER == <<NoName, "label", NoName>>


\* Variant: the one-slot signature is used whatever the argument count.
getItemArgs_regOnly(n) ==
    IF ~n.hasArgs THEN [threw |-> TRUE, error |-> "Error", label |-> Null, body |-> <<>>]
    ELSE LET named == getNamedArgsContent(n, ITEM_ARG_NAMES_REG)
         IN IF Len(n.args) = 0
            THEN [threw |-> TRUE, error |-> "TypeError", label |-> Null, body |-> <<>>]
            ELSE [threw |-> FALSE, error |-> "",
                  label |-> IF "label" \in DOMAIN named THEN named["label"] ELSE Null,
                  body |-> n.args[Len(n.args)].content]

getItemArgs(n) ==
    IF ~n.hasArgs THEN [threw |-> TRUE, error |-> "Error", label |-> Null, body |-> <<>>]
    ELSE LET argNames == IF Len(n.args) - 1 = Len(ITEM_ARG_NAMES_BEAMER)
                         THEN ITEM_ARG_NAMES_BEAMER ELSE ITEM_ARG_NAMES_REG
             named == getNamedArgsContent(n, argNames)
         IN IF Len(n.args) = 0
            THEN [threw |-> TRUE, error |-> "TypeError", label |-> Null, body |-> <<>>]
            ELSE [threw |-> FALSE, error |-> "",
                  label |-> IF "label" \in DOMAIN named THEN named["label"] ELSE Null,
                  body |-> n.args[Len(n.args)].content]

\* ---- enumerateFactory ----
\* The flatMap over the items: the "li" elements, whether a label was seen,
\* and whether getItemArgs threw on the way.
RECURSIVE itemsToLi(_)
itemsToLi(items) ==
    IF items = <<>> THEN [threw |-> FALSE, content |-> <<>>, isDescriptionList |-> FALSE]
    ELSE LET n == Head(items)
             rest == itemsToLi(Tail(items))
         IN IF ~(n.type = "macro") \/ ~n.hasArgs THEN rest
            ELSE LET namedArgs == getItemArgs(n)
                     wrapped == wrapPars(namedArgs.body)
                     body == IF ~namedArgs.label.null
                             THEN <<htmlLike("title", namedArgs.label.content, {})>> \o wrapped
                             ELSE wrapped
                 IN IF namedArgs.threw
                    THEN [threw |-> TRUE, content |-> <<>>, isDescriptionList |-> FALSE]
                    ELSE [threw |-> rest.threw,
                          content |-> <<htmlLike("li", body, {})>> \o rest.content,
                          isDescriptionList |-> ~namedArgs.label.null \/ rest.isDescriptionList]


\* Variant: the list tag is never switched to "dl".
enumerateToHtml_noDl(parentTag, env) ==
    LET items == SelectSeq(env.content, LAMBDA n : matchMacro(n, "item"))
        r == itemsToLi(items)
    IN IF r.threw THEN Threw("TypeError")
       ELSE Node(htmlLike(parentTag, r.content, {}))

enumerateToHtml(parentTag, env) ==
    LET items == SelectSeq(env.content, LAMBDA n : matchMacro(n, "item"))
        r == itemsToLi(items)
    IN IF r.threw THEN Threw("TypeError")
       ELSE Node(htmlLike(IF r.isDescriptionList THEN "dl" ELSE parentTag, r.content, {}))

\* ---- envFactory ----
EnvFactoryOptions(stmt, wrap, title, warning) ==
    [requiresStatementTag |-> stmt, wrapContentInPars |-> wrap,
     extractTitleFromArgs |-> title, warningMessage |-> warning]

\* options = {}: the defaults of the destructuring.
DefaultOptions == EnvFactoryOptions(FALSE, TRUE, TRUE, "")

\* The rule envFactory(tag, options) returns, as data.
envFactory(tag, options) == [kind |-> "envFactory", tag |-> tag, options |-> options]
enumerateFactory(parentTag) == [kind |-> "enumerate", tag |-> parentTag]
createTableFromTabular == [kind |-> "createTableFromTabular"]


\* Variant: the title is added before the statement wrapper, so it ends up inside it.
envFactoryRule_titleFirst(tag, o, env, f) ==
    LET c1 == IF o.wrapContentInPars THEN wrapPars(env.content) ELSE env.content
        args == getArgsContent(env)
        hasTitle == o.extractTitleFromArgs /\ Len(args) >= 1 /\ ~args[1].null
        c2 == IF hasTitle THEN <<htmlLike("title", args[1].content, {})>> \o c1 ELSE c1
        c3 == IF o.requiresStatementTag THEN <<htmlLike("statement", c2, {})>> ELSE c2
        attributes == IF env.renderInfo.hasAdditionalAttributes
                      THEN env.renderInfo.additionalAttributes ELSE {}
    IN [out |-> Node(htmlLike(tag, c3, attributes)), env |-> env, file |-> f]

\* The body of the rule envFactory returns: the block, and the environment
\* and the file as the call leaves them.  `content` is env.content itself
\* (the same array) when neither wrapPars nor the statement wrapper made a
\* new array, and unshift then writes to env.content.
envFactoryRule(tag, o, env, f) ==
    LET f1 == IF o.warningMessage # "" /\ f.present
              THEN fileMessage(f, makeWarningMessage(env, <<o.warningMessage>>, "env-subs"))
              ELSE f
        c1 == IF o.wrapContentInPars THEN wrapPars(env.content) ELSE env.content
        shared1 == ~o.wrapContentInPars
        c2 == IF o.requiresStatementTag THEN <<htmlLike("statement", c1, {})>> ELSE c1
        shared2 == shared1 /\ ~o.requiresStatementTag
        args == getArgsContent(env)
        hasTitle == o.extractTitleFromArgs /\ Len(args) >= 1 /\ ~args[1].null
        c3 == IF hasTitle THEN <<htmlLike("title", args[1].content, {})>> \o c2 ELSE c2
        attributes == IF env.renderInfo.hasAdditionalAttributes
                      THEN env.renderInfo.additionalAttributes ELSE {}
    IN [out |-> Node(htmlLike(tag, c3, attributes)),
        env |-> IF shared2 /\ hasTitle THEN [env EXCEPT !.content = c3] ELSE env,
        file |-> f1]


\* Variant: the warning is left out.
removeEnv_silent(env, f) == [out |-> List(env.content), env |-> env, file |-> f]

\* ---- removeEnv ----
removeEnv(env, f) ==
    [out |-> List(env.content),
     env |-> env,
     file |-> IF f.present
              THEN fileMessage(f, makeWarningMessage(env,
                       <<"Warning: There is no equivalent tag for", env.env,
                         "so the", env.env, "environment was removed.">>,
                       "environment-subs"))
              ELSE f]

\* ---- the registry ----
envAliases == <<
    [env |-> "abstract", requiresStatement |-> FALSE, aliases |-> <<"abs", "abstr">>],
    [env |-> "acknowledgement", requiresStatement |-> FALSE, aliases |-> <<"ack">>],
    [env |-> "algorithm", requiresStatement |-> TRUE, aliases |-> <<"algo", "alg">>],
    [env |-> "answer", requiresStatement |-> FALSE, aliases |-> <<"ans">>],
    [env |-> "assumption", requiresStatement |-> TRUE, aliases |-> <<"assu", "ass">>],
    [env |-> "axiom", requiresStatement |-> TRUE, aliases |-> <<"axm">>],
    [env |-> "claim", requiresStatement |-> TRUE, aliases |-> <<"cla">>],
    [env |-> "conjecture", requiresStatement |-> TRUE, aliases |-> <<"con", "conj", "conjec">>],
    [env |-> "construction", requiresStatement |-> FALSE, aliases |-> <<>>],
    [env |-> "convention", requiresStatement |-> FALSE, aliases |-> <<"conv">>],
    [env |-> "corollary", requiresStatement |-> TRUE, aliases |-> <<"cor", "corr", "coro", "corol", "corss">>],
    [env |-> "definition", requiresStatement |-> TRUE, aliases |-> <<"def", "defn", "dfn", "defi", "defin", "de">>],
    [env |-> "example", requiresStatement |-> TRUE, aliases |-> <<"exam", "exa", "eg", "exmp", "expl", "exm">>],
    [env |-> "exercise", requiresStatement |-> TRUE, aliases |-> <<"exer", "exers">>],
    [env |-> "exploration", requiresStatement |-> FALSE, aliases |-> <<>>],
    [env |-> "fact", requiresStatement |-> TRUE, aliases |-> <<>>],
    [env |-> "heuristic", requiresStatement |-> TRUE, aliases |-> <<>>],
    [env |-> "hint", requiresStatement |-> FALSE, aliases |-> <<>>],
    [env |-> "hypothesis", requiresStatement |-> TRUE, aliases |-> <<"hyp">>],
    [env |-> "identity", requiresStatement |-> TRUE, aliases |-> <<"idnty">>],
    [env |-> "insight", requiresStatement |-> FALSE, aliases |-> <<>>],
    [env |-> "investigation", requiresStatement |-> FALSE, aliases |-> <<>>],
    [env |-> "lemma", requiresStatement |-> TRUE, aliases |-> <<"lem", "lma", "lemm", "lm">>],
    [env |-> "notation", requiresStatement |-> FALSE, aliases |-> <<"no", "nota", "ntn", "nt", "notn", "notat">>],
    [env |-> "note", requiresStatement |-> FALSE, aliases |-> <<"notes">>],
    [env |-> "observation", requiresStatement |-> FALSE, aliases |-> <<"obs">>],
    [env |-> "principle", requiresStatement |-> TRUE, aliases |-> <<>>],
    [env |-> "problem", requiresStatement |-> TRUE, aliases |-> <<"prob", "prb">>],
    [env |-> "project", requiresStatement |-> FALSE, aliases |-> <<>>],
    [env |-> "proof", requiresStatement |-> FALSE, aliases |-> <<"pf", "prf", "demo">>],
    [env |-> "proposition", requiresStatement |-> TRUE, aliases |-> <<"prop", "pro", "prp", "props">>],
    [env |-> "question", requiresStatement |-> TRUE, aliases |-> <<"qu", "ques", "quest", "qsn">>],
    [env |-> "remark", requiresStatement |-> FALSE, aliases |-> <<"rem", "rmk", "rema", "bem", "subrem">>],
    [env |-> "task", requiresStatement |-> TRUE, aliases |-> <<>>],
    [env |-> "theorem", requiresStatement |-> TRUE, aliases |-> <<"thm", "theo", "theor", "thmss", "thrm">>],
    [env |-> "solution", requiresStatement |-> FALSE, aliases |-> <<"sol">>],
    [env |-> "warning", requiresStatement |-> FALSE, aliases |-> <<"warn", "wrn">>]
>>

\* Object.fromEntries: a later entry replaces an earlier one of the same key.
fromEntries(entries) ==
    LET last(k) == CHOOSE i \in 1..Len(entries) :
                      entries[i][1] = k /\ \A j \in 1..Len(entries) : entries[j][1] = k => j <= i
    IN [k \in {entries[i][1] : i \in 1..Len(entries)} |-> entries[last(k)][2]]

\* { ...a, ...b }: b's properties are written after a's.
spread(a, b) == [k \in DOMAIN a \cup DOMAIN b |-> IF k \in DOMAIN b THEN b[k] ELSE a[k]]

RECURSIVE flatten(_)
flatten(ss) == IF ss = <<>> THEN <<>> ELSE Head(ss) \o flatten(Tail(ss))


\* Variant: the alias spelling, not the canonical name, is given to envFactory.
aliasEntries_aliasTag(spec) ==
    <<<<spec.env,
        envFactory(spec.env, [DefaultOptions EXCEPT !.requiresStatementTag = spec.requiresStatement])>>>>
    \o [i \in 1..Len(spec.aliases) |->
          <<spec.aliases[i],
            envFactory(spec.aliases[i],
                       [DefaultOptions EXCEPT !.requiresStatementTag = spec.requiresStatement])>>]

aliasEntries(spec) ==
    <<<<spec.env,
        envFactory(spec.env, [DefaultOptions EXCEPT !.requiresStatementTag = spec.requiresStatement])>>>>
    \o [i \in 1..Len(spec.aliases) |->
          <<spec.aliases[i],
            envFactory(spec.env, [DefaultOptions EXCEPT !.requiresStatementTag = spec.requiresStatement])>>]


\* Variant: the expansion also generates an entry named "figure".
genEnvironmentReplacements_withFigure ==
    fromEntries(flatten([i \in 1..Len(envAliases) |-> aliasEntries(envAliases[i])])
                \o <<<<"figure", envFactory("figure", DefaultOptions)>>>>)

genEnvironmentReplacements ==
    fromEntries(flatten([i \in 1..Len(envAliases) |-> aliasEntries(envAliases[i])]))

handWritten ==
    fromEntries(<<
        <<"enumerate", enumerateFactory("ol")>>,
        <<"itemize", enumerateFactory("ul")>>,
        <<"tabular", createTableFromTabular>>,
        <<"center", envFactory("blockquote", DefaultOptions)>>,
        <<"quote", envFactory("blockquote", DefaultOptions)>>,
        <<"figure", envFactory("figure", EnvFactoryOptions(FALSE, FALSE, FALSE, ""))>>,
        <<"table", envFactory("table", EnvFactoryOptions(FALSE, FALSE, FALSE, ""))>> >>)

environmentReplacements == spread(handWritten, genEnvironmentReplacements)

\* One rule of the registry (or removeEnv) applied to an environment.
applyRule(r, env, f) ==
    CASE r.kind = "envFactory" -> envFactoryRule(r.tag, r.options, env, f)
      [] r.kind = "enumerate" -> [out |-> enumerateToHtml(r.tag, env), env |-> env, file |-> f]
      [] r.kind = "removeEnv" -> removeEnv(env, f)

\* ---- systeme and sysdelim ----
LEFT == Macro("left", FALSE, <<>>)
RIGHT == Macro("right", FALSE, <<>>)
DEFAULT_LEFT_DELIM == Macro("{", FALSE, <<>>)
DEFAULT_RIGHT_DELIM == Str(".")

\* _renderInfo.sysdelims: absent ("none"), a [front, back] pair either of
\* which may be undefined ("pair"), or a value that cannot be destructured
\* ("other").
NoSysdelims == [kind |-> "none", front |-> Null, back |-> Null]
Sysdelims(front, back) == [kind |-> "pair", front |-> front, back |-> back]
BadSysdelims == [kind |-> "other", front |-> Null, back |-> Null]

SystemeMacro(hasArgs, args, hint) ==
    [type |-> "macro", name |-> "systeme", hasArgs |-> hasArgs, args |-> args,
     sysdelims |-> hint]

\* The array-building conversion: an array for the equations, or an error.
systemeContentsToArray(equations, whitelistedVariables, converts) ==
    IF converts
    THEN [threw |-> FALSE,
          val |-> [type |-> "array", content |-> equations,
                   properSpacing |-> FALSE, whitelistedVariables |-> whitelistedVariables]]
    ELSE [threw |-> TRUE, val |-> <<>>]


\* Variant: the sysdelims hint is not consulted.
systemeTry_defaultsOnly(n, converts) ==
    LET args == getArgsContent(n)
        whitelistedVariables == IF Len(args) >= 2 THEN args[2] ELSE Null
        equations == IF Len(args) >= 4 /\ ~args[4].null THEN args[4].content ELSE <<>>
        ret == systemeContentsToArray(equations, whitelistedVariables, converts)
    IN IF ret.threw THEN Threw("Error")
       ELSE List(<<LEFT, DEFAULT_LEFT_DELIM, ret.val, RIGHT, DEFAULT_RIGHT_DELIM>>)

\* The body of the try block.
systemeTry(n, converts) ==
    LET args == getArgsContent(n)
        whitelistedVariables == IF Len(args) >= 2 THEN args[2] ELSE Null
        equations == IF Len(args) >= 4 /\ ~args[4].null THEN args[4].content ELSE <<>>
        ret == systemeContentsToArray(equations, whitelistedVariables, converts)
        orEmpty(d) == IF d.null THEN <<>> ELSE d.content
    IN IF ret.threw THEN Threw("Error")
       ELSE IF n.sysdelims.kind = "other" THEN Threw("TypeError")
       ELSE IF n.sysdelims.kind = "pair"
            THEN List(<<LEFT>> \o orEmpty(n.sysdelims.front) \o <<ret.val, RIGHT>>
                      \o orEmpty(n.sysdelims.back))
            ELSE List(<<LEFT, DEFAULT_LEFT_DELIM, ret.val, RIGHT, DEFAULT_RIGHT_DELIM>>)


\* Variant: no try/catch around the body.
systeme_noCatch(n, converts) == systemeTry(n, converts)

\* try { ... } catch (e) { return node; }
systeme(n, converts) ==
    LET r == systemeTry(n, converts)
    IN IF r.status = "threw" THEN Node(n) ELSE r

sysdelim(n) == List(<<>>)

\* ---- inputs ----
RECURSIVE SeqsUpTo(_, _)
SeqsUpTo(S, n) ==
    IF n = 0 THEN {<<>>}
    ELSE LET shorter == SeqsUpTo(S, n - 1)
         IN shorter \cup {Append(s, x) : s \in {t \in shorter : Len(t) = n - 1}, x \in S}

NoFile == [present |-> FALSE, messages |-> <<>>]
Prior == [reason |-> <<"earlier">>, source |-> "other"]
Files == {NoFile} \cup {[present |-> TRUE, messages |-> [i \in 1..k |-> Prior]] : k \in 0..MaxPrior}

BodyNodes == {Str("a"), Str("b"), ParBreak}
Bodies == SeqsUpTo(BodyNodes, MaxLen)

Absent == Arg("", <<>>)
EnvArgs == {<<FALSE, <<>>>>, <<TRUE, <<Absent>>>>, <<TRUE, <<Arg("[", <<>>)>>>>,
            <<TRUE, <<Arg("[", <<Str("T")>>)>>>>}
RenderInfos == {NoRenderInfo, RenderInfo({"xml:id"})}

BlockEnvs(name) ==
    {Environment(name, a[1], a[2], c, ri) : a \in EnvArgs, c \in Bodies, ri \in RenderInfos}

ItemBodies == {Arg("", <<>>), Arg("", <<Str("a")>>)}
Label == Arg("[", <<Str("L")>>)
Overlay == Arg("<", <<Str("1")>>)
ItemArgLists ==
    {<<>>}
    \cup {<<b>> : b \in ItemBodies}
    \cup {<<l, b>> : l \in {Absent, Label, Arg("[", <<>>)}, b \in ItemBodies}
    \cup {<<x, l, Absent, Arg("", <<Str("a")>>)>> : x \in {Absent, Overlay}, l \in {Absent, Label}}
    \cup {<<Absent, Label, Arg("", <<Str("a")>>)>>, <<Overlay, Absent, Arg("", <<Str("a")>>)>>}
    \cup {<<Absent, Absent, Label, Absent, Arg("", <<Str("a")>>)>>}
Items == {Macro("item", FALSE, <<>>)} \cup {Macro("item", TRUE, as) : as \in ItemArgLists}
\* Items as a list body holds them: the label signature of \item (1 slot) or
\* of beamer's \item (3 slots) and the body, or no arguments.
ListItems == {i \in Items : Len(i.args) \in {0, 2, 4}}
ListNodes == ListItems \cup {Str("a"), Macro("foo", FALSE, <<>>)}

ListEnvs(name) ==
    {Environment(name, FALSE, <<>>, c, NoRenderInfo) : c \in SeqsUpTo(ListNodes, MaxItems)}

EnvInputs(name) == IF name \in {"enumerate", "itemize"} THEN ListEnvs(name) ELSE BlockEnvs(name)

OptionSets == {EnvFactoryOptions(s, w, t, m) : s \in BOOLEAN, w \in BOOLEAN, t \in BOOLEAN,
                                                m \in {"", "W"}}

Delims == {Null, Some(<<Str("[")>>), Some(<<Str(".")>>), Some(<<DEFAULT_LEFT_DELIM>>)}
SystemeArgs == {<<FALSE, <<>>>>}
    \cup {<<TRUE, <<Absent, w, Absent, e>>>> :
            w \in {Absent, Arg("[", <<Str("x")>>)}, e \in {Arg("{", <<>>), Arg("{", <<Str("e")>>)}}
SystemeMacros ==
    {SystemeMacro(a[1], a[2], h) : a \in SystemeArgs,
        h \in {NoSysdelims, BadSysdelims} \cup {Sysdelims(fr, bk) : fr \in Delims, bk \in Delims}}
SysdelimMacros == {Macro("sysdelim", TRUE, <<Arg("{", <<Str("[")>>), Arg("{", <<Str(".")>>)>>)}

\* ---- the state machine ----
Init ==
    /\ rule = [kind |-> "none"]
    /\ sel = ""
    /\ node0 = ParBreak
    /\ node = ParBreak
    /\ file0 = NoFile
    /\ file = NoFile
    /\ out = NoOut
    /\ prev = NoOut
    /\ applied = 0

\* The driver is between two nodes: no rule is running or has a result pending.
Idle == applied = 0

Applied(r, s, env, f, res) ==
    /\ rule' = r
    /\ sel' = s
    /\ node0' = env
    /\ node' = res.env
    /\ file0' = f
    /\ file' = res.file
    /\ out' = res.out
    /\ prev' = NoOut
    /\ applied' = 1

\* The driver looks the environment's name up in the registry and runs the rule.
VisitEnvironment ==
    /\ Idle
    /\ \E s \in DOMAIN environmentReplacements :
           /\ environmentReplacements[s].kind \in {"envFactory", "enumerate"}
           /\ \E env \in EnvInputs(s), f \in Files :
                 Applied(environmentReplacements[s], s, env, f,
                         applyRule(environmentReplacements[s], env, f))

\* A rule built by envFactory with any options.
CallEnvFactory ==
    /\ Idle
    /\ \E tag \in {"block"}, o \in OptionSets, env \in BlockEnvs("foo"), f \in Files :
           Applied(envFactory(tag, o), "", env, f, applyRule(envFactory(tag, o), env, f))

CallRemoveEnv ==
    /\ Idle
    /\ \E env \in BlockEnvs("foo") \cup BlockEnvs("minipage"), f \in Files :
           Applied([kind |-> "removeEnv"], "", env, f, removeEnv(env, f))

\* The same rule run once more on the same node and file.
Reapply ==
    /\ rule.kind \in {"envFactory", "enumerate", "removeEnv"}
    /\ applied < MaxApply
    /\ LET res == applyRule(rule, node, file)
       IN /\ node' = res.env
          /\ file' = res.file
          /\ out' = res.out
          /\ prev' = out
          /\ applied' = applied + 1
    /\ UNCHANGED <<rule, sel, node0, file0>>

CallGetItemArgs ==
    /\ Idle
    /\ \E item \in Items :
           LET r == getItemArgs(item)
           IN Applied([kind |-> "getItemArgs"], "", item,
                      NoFile,
                      [out |-> IF r.threw THEN Threw(r.error)
                               ELSE [status |-> "args", val |-> [label |-> r.label, body |-> r.body]],
                       env |-> item, file |-> NoFile])

CallSysteme ==
    /\ Idle
    /\ \E m \in SystemeMacros, converts \in BOOLEAN :
           Applied([kind |-> "systeme", converts |-> converts], "", m, NoFile,
                   [out |-> systeme(m, converts), env |-> m, file |-> NoFile])

CallSysdelim ==
    /\ Idle
    /\ \E m \in SysdelimMacros :
           Applied([kind |-> "sysdelim"], "", m, NoFile,
                   [out |-> sysdelim(m), env |-> m, file |-> NoFile])

\* The driver has spliced the result in and moves on to the next node.
NextNode ==
    /\ ~Idle
    /\ rule' = [kind |-> "none"]
    /\ sel' = ""
    /\ node0' = ParBreak
    /\ node' = ParBreak
    /\ file0' = NoFile
    /\ file' = NoFile
    /\ out' = NoOut
    /\ prev' = NoOut
    /\ applied' = 0

Next ==
    \/ NextNode
    \/ VisitEnvironment
    \/ CallEnvFactory
    \/ CallRemoveEnv
    \/ Reapply
    \/ CallGetItemArgs
    \/ CallSysteme
    \/ CallSysdelim

Spec == Init /\ [][Next]_vars

\* ---- properties ----
Selectors(spec) == {spec.env} \cup {spec.aliases[i] : i \in 1..Len(spec.aliases)}
GeneratedSelectors == UNION {Selectors(envAliases[i]) : i \in 1..Len(envAliases)}
EntryOfSelector ==
    [s \in GeneratedSelectors |->
        envAliases[CHOOSE i \in 1..Len(envAliases) : s \in Selectors(envAliases[i])]]
EntryOf(s) == EntryOfSelector[s]

\* An argument slot that was actually supplied (getArgsContent reports it non-null).
Supplied(a) == ~(a.openMark = "" /\ a.content = <<>>)
IsTag(n, tag) == n.type = "html" /\ n.tag = tag
TagCount(c, tag) == Cardinality({k \in 1..Len(c) : IsTag(c[k], tag)})

ViaRegistry == applied >= 1 /\ sel # ""
GeneratedRuleRan == ViaRegistry /\ sel \in GeneratedSelectors
EnumerateRan == applied >= 1 /\ rule.kind = "enumerate"
EnvFactoryRan == applied >= 1 /\ rule.kind = "envFactory"
RemoveEnvRan == applied >= 1 /\ rule.kind = "removeEnv"
SystemeRan == applied >= 1 /\ rule.kind = "systeme"
GetItemArgsRan == applied >= 1 /\ rule.kind = "getItemArgs"

\* C1: every canonical name and every alias of the table is a selector of the
\* registry, belongs to one canonical name only, and its rule turns any
\* environment into a block tagged with that canonical name.
EverySelectorRegisteredOnce ==
    \A i \in 1..Len(envAliases) : \A s \in Selectors(envAliases[i]) :
        /\ s \in DOMAIN environmentReplacements
        /\ environmentReplacements[s].kind = "envFactory"
        /\ \A j \in 1..Len(envAliases) :
              s \in Selectors(envAliases[j]) => envAliases[j].env = envAliases[i].env

C1_AliasYieldsCanonicalTag ==
    /\ EverySelectorRegisteredOnce
    /\ GeneratedRuleRan =>
          /\ out.status = "node"
          /\ out.val.type = "html"
          /\ out.val.tag = EntryOf(sel).env

C1_Witness ==
    /\ GeneratedRuleRan
    /\ sel = "thm"
    /\ out.status = "node"
    /\ out.val.tag = "theorem"

\* The items of the list that have arguments attached, in order.
ArgItems(env) == SelectSeq(env.content, LAMBDA n : matchMacro(n, "item") /\ n.hasArgs)
LabelSlot(item) == IF Len(item.args) = 4 THEN item.args[2] ELSE item.args[1]
Labelled(item) == Len(item.args) >= 1 /\ Supplied(LabelSlot(item))
SomeLabelled(env) == \E k \in 1..Len(ArgItems(env)) : Labelled(ArgItems(env)[k])
TitleFirst(li) == li.content # <<>> /\ IsTag(li.content[1], "title")

C3_TitleThenStatement ==
    GeneratedRuleRan =>
        /\ out.status = "node"
        /\ out.val.type = "html"
        /\ out.val.tag = EntryOf(sel).env
        /\ LET c == out.val.content
               supplied == node0.hasArgs /\ Len(node0.args) >= 1 /\ Supplied(node0.args[1])
               rest == IF supplied THEN Tail(c) ELSE c
               pars == wrapPars(node0.content)
           IN /\ supplied => (c # <<>> /\ c[1] = htmlLike("title", node0.args[1].content, {}))
              /\ TagCount(c, "title") = IF supplied THEN 1 ELSE 0
              /\ EntryOf(sel).requiresStatement =>
                    /\ rest = <<htmlLike("statement", pars, {})>>
                    /\ TagCount(rest[1].content, "title") = 0
              /\ ~EntryOf(sel).requiresStatement => rest = pars

C3_Witness ==
    /\ GeneratedRuleRan
    /\ sel = "thm"
    /\ node0.hasArgs
    /\ node0.args = <<Arg("[", <<Str("T")>>)>>
    /\ node0.content = <<Str("a"), Str("b")>>
    /\ out.status = "node"
    /\ Len(out.val.content) = 2
    /\ IsTag(out.val.content[1], "title")
    /\ IsTag(out.val.content[2], "statement")

\* The pieces of a systeme macro the rule reads.
Equations(n) ==
    IF n.hasArgs /\ Len(n.args) >= 4 /\ Supplied(n.args[4]) THEN n.args[4].content ELSE <<>>
IsDefaultDelim(n) == n = DEFAULT_LEFT_DELIM \/ n = DEFAULT_RIGHT_DELIM
IsArrayOf(n, eqs) == n.type = "array" /\ n.content = eqs
FullPair(n) == n.sysdelims.kind = "pair" /\ ~n.sysdelims.front.null /\ ~n.sysdelims.back.null

\* C4 as stated: on success, without a hint the output is \left, "{", the
\* body, \right, "."; with a front/back hint it is \left, front, the body,
\* \right, back, and holds neither default delimiter.
C4_NoDefaultTokenWithHint ==
    (SystemeRan /\ out.status = "list") =>
        /\ node0.sysdelims.kind = "none" =>
              /\ Len(out.val) = 5
              /\ out.val[1] = LEFT /\ out.val[2] = DEFAULT_LEFT_DELIM
              /\ IsArrayOf(out.val[3], Equations(node0))
              /\ out.val[4] = RIGHT /\ out.val[5] = DEFAULT_RIGHT_DELIM
        /\ FullPair(node0) =>
              LET fr == node0.sysdelims.front.content
                  bk == node0.sysdelims.back.content
              IN /\ Len(out.val) = 3 + Len(fr) + Len(bk)
                 /\ SubSeq(out.val, 2, 1 + Len(fr)) = fr
                 /\ SubSeq(out.val, 4 + Len(fr), Len(out.val)) = bk
                 /\ \A k \in 1..Len(out.val) : ~IsDefaultDelim(out.val[k])

\* C4 amended: on success (which any macro with no hint or a pair hint
\* reaches when the conversion does not raise), without a hint the output is
\* \left, "{", the body, \right, "."; with a front/back hint it is \left,
\* front, the body, \right, back and nothing else, so a default delimiter
\* appears only where the hint itself holds one.
C4_DelimitersFromHint ==
    SystemeRan =>
        /\ (rule.converts /\ node0.sysdelims.kind # "other") => out.status = "list"
        /\ (out.status = "list" /\ node0.sysdelims.kind = "none") =>
              /\ Len(out.val) = 5
              /\ out.val[1] = LEFT /\ out.val[2] = DEFAULT_LEFT_DELIM
              /\ IsArrayOf(out.val[3], Equations(node0))
              /\ out.val[4] = RIGHT /\ out.val[5] = DEFAULT_RIGHT_DELIM
        /\ (out.status = "list" /\ FullPair(node0)) =>
              LET fr == node0.sysdelims.front.content
                  bk == node0.sysdelims.back.content
              IN /\ Len(out.val) = 3 + Len(fr) + Len(bk)
                 /\ out.val[1] = LEFT
                 /\ SubSeq(out.val, 2, 1 + Len(fr)) = fr
                 /\ IsArrayOf(out.val[2 + Len(fr)], Equations(node0))
                 /\ out.val[3 + Len(fr)] = RIGHT
                 /\ SubSeq(out.val, 4 + Len(fr), Len(out.val)) = bk

C4_Witness ==
    /\ SystemeRan
    /\ out.status = "list"
    /\ FullPair(node0)
    /\ node0.sysdelims.front.content = <<Str("[")>>
    /\ node0.sysdelims.back.content = <<Str(".")>>
    /\ out.val[5] = DEFAULT_RIGHT_DELIM

NamesEnv(msg, env) == \E k \in 1..Len(msg.reason) : msg.reason[k] = env.env

\* C5 as stated: removeEnv returns the content unmodified and every
\* invocation records exactly one diagnostic naming the environment.
C5_AlwaysOneDiagnostic ==
    RemoveEnvRan =>
        /\ out = List(node0.content)
        /\ node = node0
        /\ Len(file.messages) = Len(file0.messages) + applied
        /\ NamesEnv(file.messages[Len(file.messages)], node0)

\* C5 amended: removeEnv returns the content unmodified; an invocation that
\* is given a file records exactly one diagnostic on it, naming the
\* environment, and an invocation without a file records none.
C5_OneDiagnosticPerFile ==
    RemoveEnvRan =>
        /\ out = List(node0.content)
        /\ node = node0
        /\ file.present = file0.present
        /\ SubSeq(file.messages, 1, Len(file0.messages)) = file0.messages
        /\ file0.present =>
              /\ Len(file.messages) = Len(file0.messages) + applied
              /\ \A k \in (Len(file0.messages) + 1)..Len(file.messages) :
                    NamesEnv(file.messages[k], node0)
        /\ ~file0.present => file.messages = <<>>

C5_Witness ==
    /\ RemoveEnvRan
    /\ applied = 1
    /\ file0 = [present |-> TRUE, messages |-> <<Prior>>]
    /\ Len(file.messages) = 2
    /\ NamesEnv(file.messages[2], node0)
    /\ node0.env = "minipage"
    /\ node0.content = <<Str("a"), Str("b")>>
    /\ out = List(<<Str("a"), Str("b")>>)

\* C6: the systeme rule never raises; when the conversion (or reading the
\* hint) raises, it returns the node it was given, unmodified.
C6_FailureReturnsNode ==
    SystemeRan =>
        /\ out.status # "threw"
        /\ node = node0
        /\ (~rule.converts \/ node0.sysdelims.kind = "other") => out = Node(node0)

C6_Witness ==
    /\ SystemeRan
    /\ ~rule.converts
    /\ node0.hasArgs
    /\ out = Node(node0)

\* C7: an envFactory rule, whatever its options, leaves the node's content
\* and arguments as they were, so a second application returns the same
\* block, with at most one title and one statement element.
C7_EnvFactoryLeavesNodeAlone ==
    EnvFactoryRan =>
        /\ node.content = node0.content
        /\ node.args = node0.args
        /\ applied >= 2 => out = prev
        /\ TagCount(out.val.content, "title") <= 1
        /\ TagCount(out.val.content, "statement") <= 1

HandWrittenSelectors ==
    {"enumerate", "itemize", "tabular", "center", "quote", "figure", "table"}

\* C8: every hand-written selector maps to its hand-written rule in the
\* assembled registry (none is displaced by a generated alias); figure and
\* table have paragraph wrapping, title extraction and the statement wrapper
\* off, and their block holds the environment's content unchanged.
HandWrittenEntriesInRegistry ==
    /\ DOMAIN handWritten = HandWrittenSelectors
    /\ \A h \in HandWrittenSelectors : environmentReplacements[h] = handWritten[h]
    /\ \A h \in {"figure", "table"} :
          environmentReplacements[h] = envFactory(h, EnvFactoryOptions(FALSE, FALSE, FALSE, ""))

ItemsWithArgs(env) ==
    SelectSeq(env.content, LAMBDA n : matchMacro(n, "item") /\ n.hasArgs /\ Len(n.args) > 0)

\* C9: the list rule never raises and returns one "li" per item that has
\* arguments, in order; other children and items without arguments (none
\* attached, or an empty list) add nothing.
C9_ItemsWithoutArgsSkipped ==
    EnumerateRan =>
        /\ out.status = "node"
        /\ Len(out.val.content) = Len(ItemsWithArgs(node0))
        /\ \A k \in 1..Len(out.val.content) :
              /\ IsTag(out.val.content[k], "li")
              /\ LET item == ItemsWithArgs(node0)[k]
                     pars == wrapPars(item.args[Len(item.args)].content)
                     c == out.val.content[k].content
                 IN c = pars \/ (c # <<>> /\ Tail(c) = pars)

\* The count of slots before the trailing body argument.
Slots(item) == Len(item.args) - 1
SlotValue(a) == IF Supplied(a) THEN Some(a.content) ELSE Null

====
